---- MODULE Spec2Model ----
(***************************************************************************)
(* Model of the ControlNet job API: the upload / generate / status /       *)
(* result endpoints (app/api/endpoints/generation.py), the job-existence   *)
(* dependency (app/api/deps.py), the job coordinator                       *)
(* (app/services/job_manager.py) and the part of the inference service     *)
(* that touches the job directory (app/services/controlnet.py).            *)
(*                                                                         *)
(* Every HTTP handler is one action.  process_job is a coroutine run as a  *)
(* background task: it is cut at its suspension point (the lock acquire)   *)
(* and at each step that can raise (image load, model call, each result    *)
(* write, metadata write), and the event loop may run other handlers and   *)
(* start other background tasks between two of its steps.  A background    *)
(* task is kept while it is live: added and not yet started (queued),      *)
(* suspended in the lock's acquire (waiters), or past the acquire          *)
(* (running); it leaves the state when process_job returns or raises.      *)
(***************************************************************************)
EXTENDS Integers, Sequences, FiniteSets, Bags, TLC

\* ---------------------------------------------------------------- bounds
MaxTasks == 2       \* background tasks live at the same time

\* ------------------------------------------------------ models/generation.py
NumSamplesMin == 1
NumSamplesMax == 4

PENDING == "pending"
PROCESSING == "processing"
COMPLETED == "completed"
FAILED == "failed"

JobStatus == {PENDING, PROCESSING, COMPLETED, FAILED}

\* GenerationParams, reduced to the field the coordinator's effects depend on
ValidParams(params) ==
    /\ params.num_samples >= NumSamplesMin
    /\ params.num_samples <= NumSamplesMax

\* the sample counts clients send: the two smallest in-range values and the
\* nearest out-of-range value on each side
SampleCounts == {NumSamplesMin - 1, NumSamplesMin, NumSamplesMin + 1, NumSamplesMax + 1}

ParamChoices == {[num_samples |-> n] : n \in SampleCounts}

\* the job ids in play: uuid4 values are opaque strings, two are told apart
JobIds == {1, 2}

\* ----------------------------------------------------------- file names
InputName == "input.png"
MetadataName == "metadata.json"
OtherName == "other.png"

ResultName(idx) == "result_" \o ToString(idx) \o ".png"

\* the names the pattern result_*.png matches, among those the model writes
ResultNames == {ResultName(i) : i \in 0..(NumSamplesMax - 1)}

\* names a client asks for
FetchNames == {OtherName, ResultName(0)}

\* the (width, height) of the images clients upload while jobs are generated
UploadSizes == {<<3000, 2000>>}

\* the sides of the images uploaded where the resize is examined: tiny, below
\* the limit, the limit, just above it, and larger ones
ResizeDims == {1, 2000, 2048, 2049, 2215, 3000, 3136, 4096}

ResizeSizes == ResizeDims \X ResizeDims

\* file contents; the input image is told apart by its pixel size
InputFile(size) == [kind |-> "input", size |-> size]
ResultFile(job_id, idx) == [kind |-> "result", job |-> job_id, idx |-> idx]
PartialFile == [kind |-> "partial"]
NoBody == [kind |-> "none"]

VARIABLES
    fs,        \* JOBS_DIR: job id -> (file name -> content); its domain is the existing job directories
    jobs,      \* JobManager._jobs: job id -> JobStatus; its domain is the ids a run has touched
    lock,      \* JobManager._lock._locked
    waiters,   \* JobManager._lock._waiters: the runs suspended in acquire, FIFO
    woken,     \* the first waiter's future has been resolved by release
    queued,    \* background tasks added by start-generation and not yet started (a bag)
    running,   \* the runs past the lock acquire, each with its position and locals
    resp       \* the response of the request this step handled (NoResponse after a background step)

vars == <<fs, jobs, lock, waiters, woken, queued, running, resp>>

Response(op, job, code, status, name, images, body) ==
    [op |-> op, job |-> job, code |-> code, status |-> status, name |-> name,
     images |-> images, body |-> body]

NoResponse == Response("none", 0, 0, "", "", {}, NoBody)

\* functional update that may extend the domain
Put(f, k, v) == [x \in (DOMAIN f) \cup {k} |-> IF x = k THEN v ELSE f[x]]

EmptyDir == [x \in {} |-> NoBody]

RemoveAt(seq, i) == SubSeq(seq, 1, i - 1) \o SubSeq(seq, i + 1, Len(seq))

LiveTasks == BagCardinality(queued) + Len(waiters) + Len(running)

Init ==
    /\ fs = [j \in {} |-> EmptyDir]
    /\ jobs = [j \in {} |-> PENDING]
    /\ lock = FALSE
    /\ waiters = <<>>
    /\ woken = FALSE
    /\ queued = EmptyBag
    /\ running = <<>>
    /\ resp = NoResponse

\* -------------------------------------------------------------- deps.py
\* verify_job_id: the job directory exists
JobExists(job_id) == job_id \in DOMAIN fs

\* ------------------------------------------------------- job_manager.py
status_of(job_id) == IF job_id \in DOMAIN jobs THEN jobs[job_id] ELSE PENDING

\* ------------------------------------------------- endpoints/generation.py

\* uuid.uuid4(): an id no directory has yet; the least one stands for all
FreshJobId == Cardinality(DOMAIN fs) + 1

\* ---- the arithmetic of the resize: Python floats are IEEE 754 binary64.
\* A float is [man, exp]: man is the 53-bit significand as four limbs, most
\* significant first, the first of TopBits bits (its highest bit is 1) and
\* the others of LimbBits bits; its value is the significand * 2^exp.  The
\* limbs keep every intermediate value of the operators below under 2^31 for
\* image sides under 2^LimbBits.
MantissaBits == 53
LimbBits == 14
Limb == 2^LimbBits
TopBits == MantissaBits - 3 * LimbBits

\* round-to-nearest, ties to even: man holds the first MantissaBits bits of
\* the exact result and tail tells how the dropped part compares to half a
\* unit of the last kept bit
RoundNearestEven(man, exp, tail) ==
    IF tail = "above" \/ (tail = "half" /\ man[4] % 2 = 1)
    THEN LET s4 == man[4] + 1
             s3 == man[3] + s4 \div Limb
             s2 == man[2] + s3 \div Limb
             s1 == man[1] + s2 \div Limb
         IN IF s1 = 2^TopBits
            THEN [man |-> <<2^(TopBits - 1), 0, 0, 0>>, exp |-> exp + 1]
            ELSE [man |-> <<s1, s2 % Limb, s3 % Limb, s4 % Limb>>, exp |-> exp]
    ELSE [man |-> man, exp |-> exp]

\* the position after the binary point of the first 1 bit of n / m, n < m
RECURSIVE FirstBit(_, _)
FirstBit(n, m) == IF 2 * n >= m THEN 1 ELSE 1 + FirstBit(2 * n, m)

\* n / m for ints 0 < n < m: the float nearest to the quotient, by long
\* division limb by limb from the first 1 bit on
TrueDiv(n, m) ==
    LET first == FirstBit(n, m)
        a1 == n * 2^(first - 1) * 2^TopBits
        a2 == (a1 % m) * Limb
        a3 == (a2 % m) * Limb
        a4 == (a3 % m) * Limb
        rem == a4 % m
        tail == IF 2 * rem > m THEN "above"
                ELSE IF 2 * rem = m THEN "half" ELSE "below"
    IN RoundNearestEven(<<a1 \div m, a2 \div m, a3 \div m, a4 \div m>>,
                        0 - (first + MantissaBits - 1), tail)

\* k * x for an int k >= 1 and a float x: the float nearest to the product.
\* The exact product is top, o2, o3, o4; it has extra bits too many.
MulIntFloat(k, x) ==
    LET v4 == x.man[4] * k
        v3 == x.man[3] * k + v4 \div Limb
        v2 == x.man[2] * k + v3 \div Limb
        top == x.man[1] * k + v2 \div Limb
        o2 == v2 % Limb
        o3 == v3 % Limb
        o4 == v4 % Limb
        extra == CHOOSE e \in 0..LimbBits :
                    2^(TopBits + e - 1) <= top /\ top < 2^(TopBits + e)
        D == 2^extra
        U == 2^(LimbBits - extra)
        dropped == o4 % D
        tail == IF extra = 0 \/ 2 * dropped < D THEN "below"
                ELSE IF 2 * dropped = D THEN "half" ELSE "above"
    IN RoundNearestEven(<<top \div D,
                          o2 \div D + (top % D) * U,
                          o3 \div D + (o2 % D) * U,
                          o4 \div D + (o3 % D) * U>>,
                        x.exp + extra, tail)

\* int(x) for a float 0 < x < 2^(TopBits + LimbBits): the fraction is cut off
TruncToInt(x) ==
    LET shift == 0 - x.exp
    IN IF shift >= MantissaBits THEN 0
       ELSE IF shift >= 3 * LimbBits THEN x.man[1] \div 2^(shift - 3 * LimbBits)
       ELSE (x.man[1] * Limb + x.man[2]) \div 2^(shift - 2 * LimbBits)

\* settings.MAX_IMAGE_SIZE
MAX_IMAGE_SIZE == 2048

MaxDim(size) == IF size[1] >= size[2] THEN size[1] ELSE size[2]

\* the size the image is resized to, or its own size when it is not too large
new_size(size) ==
    IF MaxDim(size) > MAX_IMAGE_SIZE
    THEN LET ratio == TrueDiv(MAX_IMAGE_SIZE, MaxDim(size))
         IN <<TruncToInt(MulIntFloat(size[1], ratio)), TruncToInt(MulIntFloat(size[2], ratio))>>
    ELSE size

\* image.resize(new_size, LANCZOS) is called only for a too large image and
\* raises ValueError unless both sides are at least 1
resize_raises(size) ==
    /\ MaxDim(size) > MAX_IMAGE_SIZE
    /\ (new_size(size)[1] < 1 \/ new_size(size)[2] < 1)

\* the outer handlers of upload_image: an HTTPException is re-raised as it is
upload_image_except(status_code) == status_code

\* POST /upload/, the answer.  image: whether PIL can open the uploaded
\* bytes; size: the (width, height) of the opened image; mkdir_ok and
\* save_ok: whether creating the job directory and saving input.png succeed.
\* An exception of the resize reaches the outer "except Exception".
upload_image_response(job_id, image, size, mkdir_ok, save_ok) ==
    IF image = "invalid" THEN Response("upload", 0, upload_image_except(400), "", "", {}, NoBody)
    ELSE IF resize_raises(size) THEN Response("upload", 0, 500, "", "", {}, NoBody)
    ELSE IF ~mkdir_ok THEN Response("upload", 0, upload_image_except(500), "", "", {}, NoBody)
    ELSE IF ~save_ok THEN Response("upload", 0, upload_image_except(500), "", "", {}, NoBody)
    ELSE Response("upload", job_id, 200, PENDING, "", {}, NoBody)

\* faulty variant: the job directory is created before the image is validated
upload_image_files_mkdir_first(job_id, image, size, mkdir_ok, save_ok) ==
    IF ~mkdir_ok THEN fs
    ELSE IF image = "invalid" THEN Put(fs, job_id, EmptyDir)
    ELSE IF resize_raises(size) THEN Put(fs, job_id, EmptyDir)
    ELSE IF ~save_ok THEN Put(fs, job_id, EmptyDir)
    ELSE Put(fs, job_id, Put(EmptyDir, InputName, InputFile(new_size(size))))

\* POST /upload/, what it leaves on disk: the image is validated first and
\* resized when too large, then the job directory is created, then the
\* (resized) image is saved as input.png
upload_image_files(job_id, image, size, mkdir_ok, save_ok) ==
    IF image = "invalid" THEN fs
    ELSE IF resize_raises(size) THEN fs
    ELSE IF ~mkdir_ok THEN fs
    ELSE IF ~save_ok THEN Put(fs, job_id, EmptyDir)
    ELSE Put(fs, job_id, Put(EmptyDir, InputName, InputFile(new_size(size))))

upload_image(image, size, mkdir_ok, save_ok) ==
    /\ FreshJobId \in JobIds
    /\ resp' = upload_image_response(FreshJobId, image, size, mkdir_ok, save_ok)
    /\ fs' = upload_image_files(FreshJobId, image, size, mkdir_ok, save_ok)
    /\ UNCHANGED <<jobs, lock, waiters, woken, queued, running>>

\* background_tasks.add_task(job_manager.process_job, job_id, params)
NewTask(job_id, params) == [job |-> job_id, params |-> params]

\* faulty variant: start-generation answers the status the job has now
generate_images_response_CurrentStatus(job_id, params) ==
    IF ~JobExists(job_id) THEN Response("generate", job_id, 404, "", "", {}, NoBody)
    ELSE IF ~ValidParams(params) THEN Response("generate", job_id, 422, "", "", {}, NoBody)
    ELSE Response("generate", job_id, 200, status_of(job_id), "", {}, NoBody)

\* POST /{job_id}/generate/, the answer.  verify_job_id runs first, then the
\* body is validated against GenerationParams, then the handler answers
\* PROCESSING without waiting for the run.
generate_images_response(job_id, params) ==
    IF ~JobExists(job_id) THEN Response("generate", job_id, 404, "", "", {}, NoBody)
    ELSE IF ~ValidParams(params) THEN Response("generate", job_id, 422, "", "", {}, NoBody)
    ELSE Response("generate", job_id, 200, PROCESSING, "", {}, NoBody)

\* POST /{job_id}/generate/: an accepted request adds one background task
generate_images(job_id, params) ==
    /\ LiveTasks < MaxTasks
    /\ resp' = generate_images_response(job_id, params)
    /\ queued' = IF resp'.code = 200
                 THEN queued (+) SetToBag({NewTask(job_id, params)})
                 ELSE queued
    /\ UNCHANGED <<fs, jobs, lock, waiters, woken, running>>

\* job_dir.glob("result_*.png")
GlobResults(job_id) == {n \in DOMAIN fs[job_id] : n \in ResultNames}

\* faulty variant: the status endpoint without the verify_job_id dependency
get_job_status_response_unverified(job_id) ==
    IF status_of(job_id) = COMPLETED
    THEN Response("status", job_id, 200, COMPLETED, "", GlobResults(job_id), NoBody)
    ELSE Response("status", job_id, 200, status_of(job_id), "", {}, NoBody)

\* GET /{job_id}/status/, the answer
get_job_status_response(job_id) ==
    IF ~JobExists(job_id) THEN Response("status", job_id, 404, "", "", {}, NoBody)
    ELSE IF status_of(job_id) = COMPLETED
         THEN Response("status", job_id, 200, COMPLETED, "", GlobResults(job_id), NoBody)
         ELSE Response("status", job_id, 200, status_of(job_id), "", {}, NoBody)

\* faulty variant: the lookup stores the default for a job never seen
get_job_status_CreatesEntry(job_id) ==
    /\ resp' = get_job_status_response(job_id)
    /\ jobs' = IF JobExists(job_id) THEN Put(jobs, job_id, status_of(job_id)) ELSE jobs
    /\ UNCHANGED <<fs, lock, waiters, woken, queued, running>>

\* GET /{job_id}/status/: the lookup changes nothing
get_job_status(job_id) ==
    /\ resp' = get_job_status_response(job_id)
    /\ UNCHANGED <<fs, jobs, lock, waiters, woken, queued, running>>

\* the handler of get_result_image: "except Exception" catches every
\* exception raised in its try block, the HTTPException(404) included, and
\* raises HTTPException(500)
get_result_image_except(status_code) == 500

\* GET /{job_id}/result/{image_name}, the answer
get_result_image_response(job_id, image_name) ==
    IF ~JobExists(job_id) THEN Response("result", job_id, 404, "", image_name, {}, NoBody)
    ELSE IF image_name \notin DOMAIN fs[job_id]
         THEN Response("result", job_id, get_result_image_except(404), "", image_name, {}, NoBody)
         ELSE Response("result", job_id, 200, "", image_name, {}, fs[job_id][image_name])

get_result_image(job_id, image_name) ==
    /\ resp' = get_result_image_response(job_id, image_name)
    /\ UNCHANGED <<fs, jobs, lock, waiters, woken, queued, running>>

\* ------------------------------------------------------- job_manager.py

\* faulty variant: the run does not look at the lock
LockFree_Unchecked == TRUE

\* faulty variant: the fast path of acquire does not look at the waiters
LockFree_IgnoresWaiters == ~lock

\* asyncio.Lock.acquire, fast path: the lock is free and nobody waits
LockFree == ~lock /\ waiters = <<>>

\* faulty variant: the end of a run leaves the lock as it is
ReleaseLock_Skipped == UNCHANGED <<lock, waiters, woken>>

\* asyncio.Lock.release: unlock and resolve the first waiter's future
ReleaseLock ==
    /\ lock' = FALSE
    /\ woken' = (waiters # <<>>)
    /\ waiters' = waiters

\* faulty variant: PROCESSING is written before the lock is acquired
StatusAtStart_BeforeLock(task) == Put(jobs, task.job, PROCESSING)

\* the status map once a starting run has reached "async with self._lock":
\* PROCESSING is written inside the lock, so a run that suspends writes nothing
StatusAtStart(task) == IF LockFree THEN Put(jobs, task.job, PROCESSING) ELSE jobs

\* the locals of a run that has entered "async with self._lock"
Entered(task) ==
    [job |-> task.job, params |-> task.params, pc |-> "load", idx |-> 0, result_paths |-> <<>>]

\* a background task starts process_job and reaches "async with self._lock":
\* it either takes the free lock and sets PROCESSING without suspending, or
\* suspends at the end of the waiter queue
process_job_start(task) ==
    /\ BagIn(task, queued)
    /\ queued' = queued (-) SetToBag({task})
    /\ IF LockFree THEN
            /\ lock' = TRUE
            /\ running' = Append(running, Entered(task))
            /\ UNCHANGED waiters
       ELSE
            /\ waiters' = Append(waiters, task)
            /\ UNCHANGED <<lock, running>>
    /\ jobs' = StatusAtStart(task)
    /\ resp' = NoResponse
    /\ UNCHANGED <<fs, woken>>

\* the suspended acquire of the first waiter resumes once release has
\* resolved its future: it leaves the waiter queue, takes the lock and the
\* run sets PROCESSING
process_job_resume ==
    /\ woken
    /\ waiters # <<>>
    /\ waiters' = Tail(waiters)
    /\ woken' = FALSE
    /\ lock' = TRUE
    /\ jobs' = Put(jobs, Head(waiters).job, PROCESSING)
    /\ running' = Append(running, Entered(Head(waiters)))
    /\ resp' = NoResponse
    /\ UNCHANGED <<fs, queued>>

\* faulty variant: the lock is released on failure without the except branch
process_job_fail_StatusKept(r) ==
    /\ jobs' = jobs
    /\ running' = RemoveAt(running, r)
    /\ ReleaseLock

\* faulty variant: a failing run does not release the lock
process_job_fail_LockKept(r) ==
    /\ jobs' = Put(jobs, running[r].job, FAILED)
    /\ running' = RemoveAt(running, r)
    /\ UNCHANGED <<lock, waiters, woken>>

\* the except branch of process_job followed by the exit of "async with":
\* status FAILED, the exception propagates to the runner, the lock is released
process_job_fail(r) ==
    /\ jobs' = Put(jobs, running[r].job, FAILED)
    /\ running' = RemoveAt(running, r)
    /\ ReleaseLock

\* --------------------------------------------------------- controlnet.py

\* _load_image: cv2.imread gives None when input.png is missing or unreadable
process_image_load(r, readable) ==
    /\ running[r].pc = "load"
    /\ IF readable /\ InputName \in DOMAIN fs[running[r].job] THEN
            /\ running' = [running EXCEPT ![r].pc = "generate"]
            /\ UNCHANGED <<jobs, lock, waiters, woken>>
       ELSE process_job_fail(r)
    /\ resp' = NoResponse
    /\ UNCHANGED <<fs, queued>>

\* _generate: the model call; it returns params.num_samples images or raises
process_image_generate(r, model_ok) ==
    /\ running[r].pc = "generate"
    /\ IF model_ok THEN
            /\ running' = [running EXCEPT ![r].pc = "save"]
            /\ UNCHANGED <<jobs, lock, waiters, woken>>
       ELSE process_job_fail(r)
    /\ resp' = NoResponse
    /\ UNCHANGED <<fs, queued>>

\* one iteration of the loop over the results: write result_{idx}.png and
\* append its name; after the last one process_image returns result_paths
process_image_save(r, write_ok) ==
    /\ running[r].pc = "save"
    /\ LET job_id == running[r].job
           idx == running[r].idx
           name == ResultName(idx)
       IN IF write_ok THEN
               /\ fs' = [fs EXCEPT ![job_id] = Put(fs[job_id], name, ResultFile(job_id, idx))]
               /\ running' = [running EXCEPT
                                ![r].idx = idx + 1,
                                ![r].result_paths = Append(running[r].result_paths, name),
                                ![r].pc = IF idx + 1 = running[r].params.num_samples
                                          THEN "metadata" ELSE "save"]
               /\ UNCHANGED <<jobs, lock, waiters, woken>>
          ELSE
               /\ process_job_fail(r)
               /\ fs' = fs
    /\ resp' = NoResponse
    /\ UNCHANGED queued

\* ------------------------------------------------------- job_manager.py

\* faulty variant: the metadata names the results counting from 1
Metadata_NamesFromOne(params, result_paths) ==
    [kind |-> "metadata", parameters |-> params,
     results |-> [i \in 1..Len(result_paths) |-> ResultName(i)],
     status |-> COMPLETED]

\* the record _save_job_metadata dumps as JSON
Metadata(params, result_paths) ==
    [kind |-> "metadata", parameters |-> params, results |-> result_paths,
     status |-> COMPLETED]

\* _save_job_metadata, then status COMPLETED, return, lock released.
\* written: "all" the dump succeeded; "none" open() raised; "partial" open()
\* truncated the file and the write raised.
save_job_metadata(r, written) ==
    /\ running[r].pc = "metadata"
    /\ LET job_id == running[r].job
       IN IF written = "all" THEN
               /\ fs' = [fs EXCEPT ![job_id] = Put(fs[job_id], MetadataName,
                            Metadata(running[r].params, running[r].result_paths))]
               /\ jobs' = Put(jobs, job_id, COMPLETED)
               /\ running' = RemoveAt(running, r)
               /\ ReleaseLock
          ELSE
               /\ fs' = IF written = "partial"
                        THEN [fs EXCEPT ![job_id] = Put(fs[job_id], MetadataName, PartialFile)]
                        ELSE fs
               /\ process_job_fail(r)
    /\ resp' = NoResponse
    /\ UNCHANGED queued

\* ------------------------------------------------------------ the system

Next ==
    \/ \E image \in {"valid", "invalid"}, size \in UploadSizes, mkdir_ok \in BOOLEAN, save_ok \in BOOLEAN :
            upload_image(image, size, mkdir_ok, save_ok)
    \/ \E j \in JobIds, p \in ParamChoices : generate_images(j, p)
    \/ \E j \in JobIds : get_job_status(j)
    \/ \E j \in JobIds, n \in FetchNames : get_result_image(j, n)
    \/ \E task \in BagToSet(queued) : process_job_start(task)
    \/ process_job_resume
    \/ \E r \in 1..Len(running), readable \in BOOLEAN : process_image_load(r, readable)
    \/ \E r \in 1..Len(running), model_ok \in BOOLEAN : process_image_generate(r, model_ok)
    \/ \E r \in 1..Len(running), write_ok \in BOOLEAN : process_image_save(r, write_ok)
    \/ \E r \in 1..Len(running), written \in {"all", "none", "partial"} : save_job_metadata(r, written)

Spec == Init /\ [][Next]_vars

\* the tasks start-generation can add
Tasks == {NewTask(j, p) : j \in JobIds, p \in {q \in ParamChoices : ValidParams(q)}}

\* a step of the run that is past the acquire or has been handed the lock;
\* at most one run is, so at most one of these is enabled
RunStep ==
    \/ process_job_resume
    \/ \E r \in 1..Len(running), readable \in BOOLEAN : process_image_load(r, readable)
    \/ \E r \in 1..Len(running), model_ok \in BOOLEAN : process_image_generate(r, model_ok)
    \/ \E r \in 1..Len(running), write_ok \in BOOLEAN : process_image_save(r, write_ok)
    \/ \E r \in 1..Len(running), written \in {"all", "none", "partial"} : save_job_metadata(r, written)

\* the event loop runs every background task that was added and every
\* coroutine that can go on; each call inside a run returns or raises
FairSpec ==
    /\ Spec
    /\ \A task \in Tasks : WF_vars(process_job_start(task))
    /\ WF_vars(RunStep)

\* the upload and the read-only endpoints alone, over the image sizes where
\* the resize is examined
ResizeNext ==
    \/ \E image \in {"valid", "invalid"}, size \in ResizeSizes, mkdir_ok \in BOOLEAN, save_ok \in BOOLEAN :
            upload_image(image, size, mkdir_ok, save_ok)
    \/ \E j \in JobIds : get_job_status(j)
    \/ \E j \in JobIds, n \in FetchNames \cup {InputName} : get_result_image(j, n)

SpecResize == Init /\ [][ResizeNext]_vars

\* ------------------------------------------------------------ properties

Core == <<fs, jobs, lock, waiters, woken, queued, running>>

Terminal == {COMPLETED, FAILED}

\* the names result_0.png .. result_{n-1}.png, in index order
FirstResults(n) == [i \in 1..n |-> ResultName(i - 1)]

\* start-generation was accepted for the job and that run is not over
HasLiveTask(j) ==
    \/ \E task \in BagToSet(queued) : task.job = j
    \/ \E i \in 1..Len(waiters) : waiters[i].job = j
    \/ \E r \in 1..Len(running) : running[r].job = j

\* the jobs for which start-generation has been accepted (and answered
\* Processing) at some time: an accepted request adds a task, a task stays
\* live until its run ends, and a run that has entered leaves an entry in the
\* status map, which is never removed
StartAnswered == {j \in JobIds : j \in DOMAIN jobs \/ HasLiveTask(j)}

\* this step is the end of a run: process_job returned or raised
RunEnds == Len(running) = 1 /\ running' = <<>>

\* C1: at most one run is between lock-acquire and lock-release at a time,
\* so the gateway calls of two runs never overlap, and a run inside the
\* critical section holds the lock.
C1_Serialization ==
    /\ Len(running) <= 1
    /\ running # <<>> => lock

\* a run is inside its gateway call while the run of another job waits for the lock
C1_Witness ==
    /\ Len(running) = 1
    /\ running[1].pc = "generate"
    /\ waiters # <<>>
    /\ waiters[1].job # running[1].job

\* C2: once status_of(job) is Completed or Failed it never changes again (the
\* coordinator never processes that job again).
C2_TerminalAbsorbing ==
    [][\A j \in JobIds : status_of(j) \in Terminal => status_of(j)' = status_of(j)]_vars

\* C3: when a run with num_samples = N completes successfully, the job
\* directory holds exactly the result files result_0.png .. result_{N-1}.png,
\* the run returns these names in index order, and status_of is Completed.
C3_ExactlyNResults ==
    [][\A j \in JobIds :
        (RunEnds /\ running[1].job = j /\ running[1].pc = "metadata" /\ status_of(j)' # FAILED) =>
            LET n == running[1].params.num_samples
            IN /\ GlobResults(j)' = {ResultName(i) : i \in 0..(n - 1)}
               /\ running[1].result_paths = FirstResults(n)
               /\ status_of(j)' = COMPLETED]_vars

\* C4: when the gateway raises during a run, status_of(job) is Failed after
\* the run and no metadata file exists in the job's directory.
C4_GatewayFailureNoMetadata ==
    [][\A j \in JobIds :
        (RunEnds /\ running[1].job = j /\ running[1].pc = "generate") =>
            /\ status_of(j)' = FAILED
            /\ MetadataName \notin DOMAIN fs'[j]]_vars

\* C5: a job's status stays Pending until its run acquires the lock: the only
\* step away from Pending, and the only step into Processing, is the one at
\* which a run of that job enters the critical section holding the lock.
C5_PendingUntilLock ==
    [][\A j \in JobIds :
        (status_of(j)' # status_of(j) /\ (status_of(j) = PENDING \/ status_of(j)' = PROCESSING)) =>
            /\ status_of(j)' = PROCESSING
            /\ lock'
            /\ running' # <<>>
            /\ running'[Len(running')].job = j
            /\ running'[Len(running')].pc = "load"
            /\ Len(running') = Len(running) + 1]_vars

\* an uploaded job whose run is suspended behind the run of another job, still Pending
C5_Witness ==
    /\ Len(running) = 1
    /\ waiters # <<>>
    /\ waiters[1].job # running[1].job
    /\ waiters[1].job \in DOMAIN fs
    /\ status_of(waiters[1].job) = PENDING
    /\ status_of(running[1].job) = PROCESSING

\* C6: poll-status, start-generation and fetch-result for a job id without a
\* job directory answer 404, never Pending, and change nothing.
C6_UnknownJobNotFound ==
    [][(resp'.op \in {"status", "generate", "result"} /\ resp'.job \notin DOMAIN fs) =>
        /\ resp'.code = 404
        /\ resp'.status # PENDING
        /\ UNCHANGED Core]_vars

\* start-generation was answered 404 for an unknown id while another job exists and has a run going
C6_Witness ==
    /\ resp.op = "generate"
    /\ resp.code = 404
    /\ resp.job \notin DOMAIN fs
    /\ running # <<>>

\* C7: fetch-result for an existing job answers 404 when the file does not
\* exist in the job's directory and the file's bytes when it does.
C7_FetchResult ==
    (resp.op = "result" /\ resp.job \in DOMAIN fs) =>
        IF resp.name \in DOMAIN fs[resp.job]
        THEN resp.code = 200 /\ resp.body = fs[resp.job][resp.name]
        ELSE resp.code = 404

\* C8: a run that ends in Failed leaves none of the result files it wrote in
\* the job directory.
C8_FailureDiscardsSamples ==
    [][\A j \in JobIds :
        (RunEnds /\ running[1].job = j /\ status_of(j)' = FAILED) =>
            \A i \in 0..(running[1].idx - 1) : ResultName(i) \notin DOMAIN fs'[j]]_vars

\* C9: whenever a job's metadata file exists, its parameters are those of the
\* run that wrote it, its results are the result files that run wrote, all
\* present in the job directory, and its status is the job's terminal status.
C9_MetadataRoundTrip ==
    [][\A j \in DOMAIN fs' : MetadataName \in DOMAIN fs'[j] =>
        LET m == fs'[j][MetadataName]
            written == MetadataName \notin DOMAIN fs[j] \/ fs[j][MetadataName] # m
        IN /\ m.kind = "metadata"
           /\ written => /\ Len(running) = 1
                         /\ running[1].job = j
                         /\ m.parameters = running[1].params
                         /\ m.results = running[1].result_paths
           /\ \A i \in 1..Len(m.results) : m.results[i] \in DOMAIN fs'[j]
           /\ status_of(j)' \in Terminal => m.status = status_of(j)']_vars

\* C10: a rejected request changes nothing: an upload rejected as an invalid
\* image creates no job directory, and a start-generation rejected by
\* validation enqueues no run and leaves every status as it was.
C10_RejectedChangesNothing ==
    [][((resp'.op = "upload" /\ resp'.code = 400) \/ (resp'.op = "generate" /\ resp'.code = 422)) =>
        UNCHANGED Core]_vars

\* an upload was rejected with 400 while an earlier job exists
C10_Witness ==
    /\ resp.op = "upload"
    /\ resp.code = 400
    /\ DOMAIN fs # {}
    /\ FreshJobId \in JobIds

\* C11: an upload of a valid image of size (w, h), with no I/O failure,
\* succeeds; when max(w, h) > MAX_IMAGE_SIZE the stored input image's longer
\* side is MAX_IMAGE_SIZE and each side is within 1 pixel of the
\* aspect-preserving value dim * MAX_IMAGE_SIZE / max(w, h); otherwise the
\* stored size is (w, h).
C11_UploadResize ==
    [][\A size \in ResizeSizes :
        upload_image("valid", size, TRUE, TRUE) =>
            /\ resp'.code = 200
            /\ FreshJobId \in DOMAIN fs'
            /\ InputName \in DOMAIN fs'[FreshJobId]
            /\ LET stored == fs'[FreshJobId][InputName].size
                   longer == MaxDim(size)
               IN IF longer > MAX_IMAGE_SIZE
                  THEN \A i \in 1..2 :
                        /\ size[i] = longer => stored[i] = MAX_IMAGE_SIZE
                        /\ stored[i] * longer - size[i] * MAX_IMAGE_SIZE <= longer
                        /\ size[i] * MAX_IMAGE_SIZE - stored[i] * longer <= longer
                  ELSE stored = size]_vars

\* C12: whenever status_of(job) is Completed, the job's metadata file exists
\* and every result file named in it exists in the job directory; within a
\* run the result files are written first, then the metadata, and only then
\* is the status set to Completed: a run that has not written the metadata
\* has not set Completed, and a run at the metadata write has written all
\* its result files.
C12_CompletedHasFiles ==
    /\ \A j \in JobIds : status_of(j) = COMPLETED =>
            /\ j \in DOMAIN fs
            /\ MetadataName \in DOMAIN fs[j]
            /\ fs[j][MetadataName].kind = "metadata"
            /\ \A i \in 1..Len(fs[j][MetadataName].results) :
                    fs[j][MetadataName].results[i] \in DOMAIN fs[j]
    /\ \A r \in 1..Len(running) :
            /\ status_of(running[r].job) # COMPLETED
            /\ running[r].pc = "metadata" =>
                    /\ Len(running[r].result_paths) = running[r].params.num_samples
                    /\ \A i \in 1..Len(running[r].result_paths) :
                            running[r].result_paths[i] \in DOMAIN fs[running[r].job]

\* a job is Completed with two results named in its metadata, no run is going
C12_Witness ==
    /\ running = <<>>
    /\ \E j \in DOMAIN fs :
            /\ status_of(j) = COMPLETED
            /\ MetadataName \in DOMAIN fs[j]
            /\ fs[j][MetadataName].kind = "metadata"
            /\ Len(fs[j][MetadataName].results) = 2

\* C13: a failure at any step of a run (input image load, gateway call,
\* writing a result file, writing the metadata file) sets the job's status to
\* Failed, ends the run by raising and releases the lock, all before any
\* other step; no run ends with the status left at Processing.
C13_FailureSetsFailed ==
    [][\A r \in 1..Len(running) : \A j \in JobIds : running[r].job = j =>
        /\ (\/ process_image_load(r, FALSE)
            \/ (process_image_load(r, TRUE) /\ InputName \notin DOMAIN fs[j])
            \/ process_image_generate(r, FALSE)
            \/ process_image_save(r, FALSE)
            \/ save_job_metadata(r, "none")
            \/ save_job_metadata(r, "partial"))
           => /\ status_of(j)' = FAILED
              /\ running' = RemoveAt(running, r)
              /\ ~lock'
        /\ running' = RemoveAt(running, r) => status_of(j)' # PROCESSING]_vars

\* a run has failed at the metadata write, its job is Failed, the lock is
\* free and handed to the run waiting behind it
C13_Witness ==
    /\ running = <<>>
    /\ ~lock
    /\ woken
    /\ waiters # <<>>
    /\ \E j \in DOMAIN fs :
            /\ status_of(j) = FAILED
            /\ MetadataName \in DOMAIN fs[j]
            /\ fs[j][MetadataName] = PartialFile

\* C14: under a fair scheduler and gateway calls that return or raise, every
\* job for which start-generation was accepted and whose run is not over
\* eventually has status Completed or Failed, whatever else is queued and
\* however earlier runs ended.
C14_EventuallyTerminal ==
    \A j \in JobIds : HasLiveTask(j) ~> (status_of(j) \in Terminal)

\* start-generation has just been accepted for a Pending job while the run of
\* another job holds the lock
C14_Witness ==
    /\ resp.op = "generate"
    /\ resp.code = 200
    /\ status_of(resp.job) = PENDING
    /\ HasLiveTask(resp.job)
    /\ Len(running) = 1
    /\ running[1].job # resp.job

\* C15: at most one job has status Processing; whenever a job's status is
\* Processing the lock is held and the run inside the critical section is a
\* run of that job; the lock is never held while no run is inside its
\* critical section.
C15_ProcessingHoldsLock ==
    /\ Cardinality({j \in JobIds : status_of(j) = PROCESSING}) <= 1
    /\ \A j \in JobIds : status_of(j) = PROCESSING =>
            /\ lock
            /\ Len(running) = 1
            /\ running[1].job = j
    /\ lock => running # <<>>

\* one job is Processing at a result write while the other job is already
\* Completed and has a second run waiting for the lock
C15_Witness ==
    /\ Len(running) = 1
    /\ running[1].pc = "save"
    /\ status_of(running[1].job) = PROCESSING
    /\ waiters # <<>>
    /\ waiters[1].job # running[1].job
    /\ status_of(waiters[1].job) = COMPLETED

\* C16: the lock is served in the order of the acquire attempts: a run that
\* cannot take the lock at once joins the end of the waiter queue, the queue
\* changes only by that and by its first run leaving it to enter the
\* critical section, and while some run waits no other run enters.
C16_FifoOrder ==
    [][/\ waiters' # waiters =>
            \/ /\ Len(waiters') = Len(waiters) + 1
               /\ SubSeq(waiters', 1, Len(waiters)) = waiters
               /\ running' = running
            \/ /\ waiters # <<>>
               /\ waiters' = Tail(waiters)
               /\ running' = Append(running, Entered(Head(waiters)))
       /\ Len(running') > Len(running) =>
            IF waiters = <<>>
            THEN \E task \in BagToSet(queued) :
                    /\ running' = Append(running, Entered(task))
                    /\ ~lock
            ELSE /\ waiters' = Tail(waiters)
                 /\ running' = Append(running, Entered(Head(waiters)))
                 /\ running = <<>>]_vars

\* the lock has been released and handed to the waiting run of a Pending
\* job, which has not resumed yet, and a run of another job has arrived and
\* waits behind it
C16_Witness ==
    /\ ~lock
    /\ woken
    /\ Len(waiters) = 2
    /\ waiters[1].job # waiters[2].job
    /\ status_of(waiters[1].job) = PENDING

C18_OnlyRunMutatesStatus ==
    [][/\ resp'.op \in {"upload", "generate", "status", "result"} => jobs' = jobs
       /\ jobs' # jobs => (resp'.op = "none" /\ running' # running)]_vars

\* poll-status has just answered Pending for a job no run has touched, while
\* the other job has an entry and a run going
C18_Witness ==
    /\ resp.op = "status"
    /\ resp.code = 200
    /\ resp.status = PENDING
    /\ resp.job \notin DOMAIN jobs
    /\ DOMAIN jobs # {}
    /\ running # <<>>

\* C19: every existing job directory holds input.png, and an upload answered
\* with an error leaves the job directories as they were.
C19_KnownJobHasInput ==
    [][/\ \A j \in DOMAIN fs' : InputName \in DOMAIN fs'[j]
       /\ (resp'.op = "upload" /\ resp'.code # 200) => fs' = fs]_vars

\* C20: once start-generation has answered Processing for a job, no later
\* poll-status for that job answers Pending.
C20_NeverBackToPending ==
    (resp.op = "status" /\ resp.code = 200 /\ resp.job \in StartAnswered) =>
        resp.status # PENDING

====
